---- MODULE Spec2Model ----
(***************************************************************************)
(* Routing service of src/main.rs: the startup phase that loads the        *)
(* coordinates graph, the spatial partition, the point-to-id map and the   *)
(* contraction-hierarchy / hub-label artifacts, followed by the POST       *)
(* /route handler closure run concurrently for several requests against    *)
(* the shared, Arc-wrapped state.                                          *)
(*                                                                         *)
(* Coordinates are whole degrees.  A request body carries (lon, lat)       *)
(* pairs; a Point is built from (lat, lon).                                *)
(***************************************************************************)
EXTENDS Integers, Sequences, FiniteSets, TLC

\* ---------------------------------------------------------------- bounds
\* Largest number of points in the coordinate file.
MaxPoints == 2
\* Largest number of vertices in the contracted graph.
MaxVertices == 3
\* Number of requests the server receives in one run.
NumRequests == 2

Requests == 1..NumRequests

\* ------------------------------------------------------------ geometry
\* Point::from_coordinate(lat, lon)
Point_from_coordinate(lat, lon) == [lat |-> lat, lon |-> lon]

\* Points the coordinate file may hold.
PointSet == {Point_from_coordinate(2, 0), Point_from_coordinate(0, 2)}

\* (from, to) pairs of (lon, lat) a request may carry: the same vertex twice,
\* the two vertices, a point midway between the two vertices, and a longitude
\* beyond 180 degrees.
ReqCoords == {<<<<0, 2>>, <<0, 2>>>>, <<<<0, 2>>, <<2, 0>>>>,
              <<<<1, 1>>, <<2, 0>>>>, <<<<181, 0>>, <<0, 2>>>>}

\* Distance used by the spatial partition to rank points.
Dist2(p, q) == (p.lat - q.lat) * (p.lat - q.lat) + (p.lon - q.lon) * (p.lon - q.lon)

None == [some |-> FALSE, val |-> 0]

\* All sequences over S of length at most k.
SeqsUpTo(S, k) == UNION {[1..m -> S] : m \in 0..k}

\* ------------------------------------------------------------- graphs
ChainEdges(n) == {<<i, i + 1, 1>> : i \in 0..(n - 2)} \cup {<<i + 1, i, 1>> : i \in 0..(n - 2)}
HubEdges(n) == {<<i, n - 1, 1>> : i \in 0..(n - 2)} \cup {<<n - 1, i, 1>> : i \in 0..(n - 2)}
GraphsOf(n) == {[n |-> n, edges |-> E] : E \in {{}, ChainEdges(n), HubEdges(n)}}
Graphs == UNION {GraphsOf(n) : n \in 0..MaxVertices}
NoGraph == [n |-> 0, edges |-> {}]

\* --------------------------------------------------------- request body
\* What warp::body::json() is handed: a body that deserializes into
\* RouteRequest {from: (lon, lat), to: (lon, lat)} or one that does not.
RouteRequest(from, to) == [wellformed |-> TRUE, from |-> from, to |-> to]
MalformedBody == [wellformed |-> FALSE, from |-> <<0, 0>>, to |-> <<0, 0>>]
Bodies == {MalformedBody} \cup {RouteRequest(c[1], c[2]) : c \in ReqCoords}

NoPath == [vertices |-> <<>>, weight |-> 0]
NoResponse == [status |-> 0, linestring |-> <<>>]
IdleRequest == [pc |-> "idle", body |-> MalformedBody, from |-> 0, to |-> 0,
                path |-> NoPath, response |-> NoResponse]

VARIABLES
    phase,             \* position of main: start .. serving, or aborted
    gr_co_file,        \* the .gr/.co artifact on disk
    ch_file,           \* the contraction-hierarchy artifact on disk
    hl_file,           \* the hub-label artifact on disk
    coordinates_graph, \* Fmi: its points
    point_grid,        \* PointSpatialPartition: points in insertion order
    point_id_map,      \* HashMap<Point, usize>
    ch_information,    \* deserialized ContractedGraphInformation
    hl,                \* whether the HubGraph has been deserialized
    path_finder,       \* the graph snapshot owned by the ChPathFinder
    ready_printed,     \* "ready" was printed
    req                \* per-request state of the handler closure

vars == <<phase, gr_co_file, ch_file, hl_file, coordinates_graph, point_grid,
          point_id_map, ch_information, hl, path_finder, ready_printed, req>>

files == <<gr_co_file, ch_file, hl_file>>
shared == <<coordinates_graph, point_grid, point_id_map, path_finder>>

Init ==
    /\ phase = "start"
    /\ gr_co_file \in [status : {"ok", "unreadable"}, points : SeqsUpTo(PointSet, MaxPoints)]
    /\ gr_co_file.status = "unreadable" => gr_co_file.points = <<>>
    /\ ch_file \in [status : {"ok", "missing", "corrupt"}, graph : Graphs]
    /\ ch_file.status # "ok" => ch_file.graph = NoGraph
    /\ hl_file \in {"ok", "missing", "corrupt"}
    /\ coordinates_graph = <<>>
    /\ point_grid = <<>>
    /\ point_id_map = <<>>
    /\ ch_information = NoGraph
    /\ hl = FALSE
    /\ path_finder = NoGraph
    /\ ready_printed = FALSE
    /\ req = [r \in Requests |-> IdleRequest]

\* ------------------------------------------------- library operations
Some(x) == [some |-> TRUE, val |-> x]

\* PointSpatialPartition::add_points: the points are inserted in input order.
add_points(grid, points) == grid \o points

\* PointSpatialPartition::get_nearest: no point for an empty partition, else
\* the nearest point, the first-inserted one among equally near points.
get_nearest(grid, p) ==
    IF grid = <<>> THEN None
    ELSE LET i == CHOOSE i \in 1..Len(grid) :
                    /\ \A j \in 1..Len(grid) : Dist2(grid[i], p) <= Dist2(grid[j], p)
                    /\ \A j \in 1..(i - 1) : Dist2(grid[j], p) > Dist2(grid[i], p)
         IN Some(grid[i])

\* HashMap::insert: a later insert of an equal key replaces the value.
HashMap_insert(m, k, v) == [q \in (DOMAIN m) \cup {k} |-> IF q = k THEN v ELSE m[q]]

\* HashMap::get
HashMap_get(m, k) == IF k \in DOMAIN m THEN Some(m[k]) ELSE None

\* ShortestPathRequest::new: every pair of vertex ids is a request, a
\* degenerate pair (source = target) included.
ShortestPathRequest_new(source, target) == Some([source |-> source, target |-> target])

\* Weight of the cheapest edge u -> v of g.
EdgeWeight(g, u, v) ==
    LET W == {e[3] : e \in {e \in g.edges : e[1] = u /\ e[2] = v}}
    IN CHOOSE w \in W : \A x \in W : w <= x

RECURSIVE WalkWeight(_, _)
WalkWeight(g, walk) ==
    IF Len(walk) <= 1 THEN 0
    ELSE EdgeWeight(g, walk[1], walk[2]) + WalkWeight(g, Tail(walk))

\* The simple walks of g from s to t.
Walks(g, s, t) ==
    {w \in UNION {[1..k -> 0..(g.n - 1)] : k \in 1..g.n} :
        /\ w[1] = s
        /\ w[Len(w)] = t
        /\ \A i, j \in 1..Len(w) : i # j => w[i] # w[j]
        /\ \A i \in 1..(Len(w) - 1) : \E e \in g.edges : e[1] = w[i] /\ e[2] = w[i + 1]}

\* PathFinding::get_shortest_path: a minimum-weight path of the snapshot, the
\* single vertex with weight 0 for source = target, nothing when the vertices
\* are not connected or not vertices of the snapshot.
get_shortest_path(g, request) ==
    LET s == request.source
        t == request.target
        W == IF s \in 0..(g.n - 1) /\ t \in 0..(g.n - 1) THEN Walks(g, s, t) ELSE {}
    IN IF W = {} THEN None
       ELSE LET best == CHOOSE w \in W : \A x \in W : WalkWeight(g, w) <= WalkWeight(g, x)
            IN Some([vertices |-> best, weight |-> WalkWeight(g, best)])

\* Fmi::convert_path: the points of the vertex ids; indexing a vertex id that
\* has no point fails.
convert_path(points, ids) ==
    IF \E i \in 1..Len(ids) : ids[i] + 1 \notin 1..Len(points) THEN None
    ELSE Some([i \in 1..Len(ids) |-> points[ids[i] + 1]])

\* Linestring::new
Linestring_new(path) == path

\* ------------------------------------------------------------ startup
Abort ==
    /\ phase' = "aborted"
    /\ UNCHANGED <<files, coordinates_graph, point_grid, point_id_map,
                   ch_information, hl, path_finder, ready_printed, req>>

\* Fmi::from_gr_co_file(gr_path, co_path): the graph of a readable pair of
\* files; for a pair that cannot be opened or parsed the call does not
\* return (a configuration error is fatal and ends startup).
Fmi_from_gr_co_file(file) ==
    IF file.status = "ok" THEN Some(file.points) ELSE None

\* The call Fmi::from_gr_co_file fails inside the library: main never gets a
\* graph and the process ends.
CoordinatesGraphLoadFails ==
    /\ phase = "start"
    /\ ~Fmi_from_gr_co_file(gr_co_file).some
    /\ Abort

\* coordinates_graph = Arc::new(Fmi::from_gr_co_file(gr_path, co_path)): the
\* graph the call returns is kept.
LoadCoordinatesGraph ==
    /\ phase = "start"
    /\ Fmi_from_gr_co_file(gr_co_file).some
    /\ coordinates_graph' = Fmi_from_gr_co_file(gr_co_file).val
    /\ phase' = "graph_loaded"
    /\ UNCHANGED <<files, point_grid, point_id_map, ch_information, hl,
                   path_finder, ready_printed, req>>

\* PointSpatialPartition::new_root(10); add_points(&coordinates_graph.points)
BuildPointGrid ==
    /\ phase = "graph_loaded"
    /\ point_grid' = add_points(<<>>, coordinates_graph)
    /\ phase' = "grid_built"
    /\ UNCHANGED <<files, coordinates_graph, point_id_map, ch_information, hl,
                   path_finder, ready_printed, req>>

\* The loop "for (id, point) in points.iter().cloned().enumerate()": the map
\* after the first k points have been inserted.
RECURSIVE InsertPoints(_, _)
InsertPoints(points, k) ==
    IF k = 0 THEN <<>>
    ELSE HashMap_insert(InsertPoints(points, k - 1), points[k], k - 1)

BuildPointIdMap ==
    /\ phase = "grid_built"
    /\ point_id_map' = InsertPoints(coordinates_graph, Len(coordinates_graph))
    /\ phase' = "map_built"
    /\ UNCHANGED <<files, coordinates_graph, point_grid, ch_information, hl,
                   path_finder, ready_printed, req>>

\* A loader that falls back to an empty graph when the artifact cannot be
\* opened or deserialized.
LoadChOrDefault ==
    /\ phase = "map_built"
    /\ ch_information' = ch_file.graph
    /\ phase' = "ch_loaded"
    /\ UNCHANGED <<files, coordinates_graph, point_grid, point_id_map, hl,
                   path_finder, ready_printed, req>>

\* File::open(ch_path).unwrap(); bincode::deserialize_from(reader).unwrap()
LoadCh ==
    /\ phase = "map_built"
    /\ IF ch_file.status = "ok"
       THEN /\ ch_information' = ch_file.graph
            /\ phase' = "ch_loaded"
            /\ UNCHANGED <<files, coordinates_graph, point_grid, point_id_map, hl,
                           path_finder, ready_printed, req>>
       ELSE Abort

\* File::open(hl_path).unwrap(); bincode::deserialize_from(reader).unwrap()
LoadHl ==
    /\ phase = "ch_loaded"
    /\ IF hl_file = "ok"
       THEN /\ hl' = TRUE
            /\ phase' = "hl_loaded"
            /\ UNCHANGED <<files, coordinates_graph, point_grid, point_id_map,
                           ch_information, path_finder, ready_printed, req>>
       ELSE Abort

\* path_finder = Arc::new(Box::new(ch_path_finder)); println!("ready")
AnnounceReady ==
    /\ phase = "hl_loaded"
    /\ path_finder' = ch_information
    /\ ready_printed' = TRUE
    /\ phase' = "ready"
    /\ UNCHANGED <<files, coordinates_graph, point_grid, point_id_map,
                   ch_information, hl, req>>

\* warp::serve(promote).run(([127, 0, 0, 1], 3030))
Serve ==
    /\ phase = "ready"
    /\ phase' = "serving"
    /\ UNCHANGED <<files, shared, ch_information, hl, ready_printed, req>>

\* ------------------------------------------------------ route handler
Panic(r) == req' = [req EXCEPT ![r].pc = "panicked"]

\* POST /route with warp::body::json(): a body that does not deserialize into
\* RouteRequest is rejected by the filter (400 Bad Request) and the closure
\* is not run.  Requests are numbered in their order of arrival.
Receive(r, body) ==
    /\ phase = "serving"
    /\ req[r].pc = "idle"
    /\ \A q \in 1..(r - 1) : req[q].pc # "idle"
    /\ IF body.wellformed
       THEN req' = [req EXCEPT ![r].pc = "received", ![r].body = body]
       ELSE req' = [req EXCEPT ![r].pc = "rejected", ![r].body = body,
                               ![r].response = [status |-> 400, linestring |-> <<>>]]
    /\ UNCHANGED <<phase, files, shared, ch_information, hl, ready_printed>>

\* Point::from_coordinate(c.1, c.0); point_grid.get_nearest(..).unwrap();
\* *point_id_map.get(..).unwrap(): the vertex id of a (lon, lat) pair, or
\* nothing where an unwrap fails.
SnapVertex(grid, map, c) ==
    LET point == Point_from_coordinate(c[2], c[1])
        nearest == get_nearest(grid, point)
    IN IF nearest.some THEN HashMap_get(map, nearest.val) ELSE None

\* A handler that also records the query point in the point-to-id map.
SnapAndRemember(r) ==
    /\ phase = "serving"
    /\ req[r].pc = "received"
    /\ LET from == SnapVertex(point_grid, point_id_map, req[r].body.from)
           to == SnapVertex(point_grid, point_id_map, req[r].body.to)
           c == req[r].body.from
       IN /\ IF from.some /\ to.some
             THEN req' = [req EXCEPT ![r].pc = "snapped", ![r].from = from.val,
                                     ![r].to = to.val]
             ELSE Panic(r)
          /\ point_id_map' = IF from.some
                             THEN HashMap_insert(point_id_map,
                                      Point_from_coordinate(c[2], c[1]), from.val)
                             ELSE point_id_map
    /\ UNCHANGED <<phase, files, coordinates_graph, point_grid, path_finder,
                   ch_information, hl, ready_printed>>

\* Lines 96-102 of the closure: both endpoints are snapped.
Snap(r) ==
    /\ phase = "serving"
    /\ req[r].pc = "received"
    /\ LET from == SnapVertex(point_grid, point_id_map, req[r].body.from)
           to == SnapVertex(point_grid, point_id_map, req[r].body.to)
       IN IF from.some /\ to.some
          THEN req' = [req EXCEPT ![r].pc = "snapped", ![r].from = from.val,
                                  ![r].to = to.val]
          ELSE Panic(r)
    /\ UNCHANGED <<phase, files, shared, ch_information, hl, ready_printed>>

\* A search that consumes the edges of the path it returns.
ComputePathConsuming(r) ==
    /\ phase = "serving"
    /\ req[r].pc = "snapped"
    /\ LET request == ShortestPathRequest_new(req[r].from, req[r].to)
           pathx == IF request.some THEN get_shortest_path(path_finder, request.val)
                    ELSE None
       IN /\ IF pathx.some
             THEN req' = [req EXCEPT ![r].pc = "computed", ![r].path = pathx.val]
             ELSE Panic(r)
          /\ path_finder' =
                IF pathx.some
                THEN [path_finder EXCEPT !.edges =
                        {e \in @ : ~ \E i \in 1..(Len(pathx.val.vertices) - 1) :
                            /\ e[1] = pathx.val.vertices[i]
                            /\ e[2] = pathx.val.vertices[i + 1]}]
                ELSE path_finder
    /\ UNCHANGED <<phase, files, coordinates_graph, point_grid, point_id_map,
                   ch_information, hl, ready_printed>>

\* ShortestPathRequest::new(from, to).unwrap();
\* path_finder.get_shortest_path(&request).unwrap()
ComputePath(r) ==
    /\ phase = "serving"
    /\ req[r].pc = "snapped"
    /\ LET request == ShortestPathRequest_new(req[r].from, req[r].to)
           pathx == IF request.some THEN get_shortest_path(path_finder, request.val)
                    ELSE None
       IN IF pathx.some
          THEN req' = [req EXCEPT ![r].pc = "computed", ![r].path = pathx.val]
          ELSE Panic(r)
    /\ UNCHANGED <<phase, files, shared, ch_information, hl, ready_printed>>

\* A handler that draws the geometry from the two endpoints instead of the
\* vertices of the path.
RespondEndpoints(r) ==
    /\ phase = "serving"
    /\ req[r].pc = "computed"
    /\ LET path == convert_path(coordinates_graph, <<req[r].from, req[r].to>>)
       IN IF path.some
          THEN req' = [req EXCEPT ![r].pc = "responded",
                          ![r].response = [status |-> 200,
                                           linestring |-> Linestring_new(path.val)]]
          ELSE Panic(r)
    /\ UNCHANGED <<phase, files, shared, ch_information, hl, ready_printed>>

\* coordinates_graph.convert_path(&ids); Linestring::new(path);
\* Response::builder().body(planet.to_geojson_str()): status 200 by default.
Respond(r) ==
    /\ phase = "serving"
    /\ req[r].pc = "computed"
    /\ LET path == convert_path(coordinates_graph, req[r].path.vertices)
       IN IF path.some
          THEN req' = [req EXCEPT ![r].pc = "responded",
                          ![r].response = [status |-> 200,
                                           linestring |-> Linestring_new(path.val)]]
          ELSE Panic(r)
    /\ UNCHANGED <<phase, files, shared, ch_information, hl, ready_printed>>

Next ==
    \/ LoadCoordinatesGraph
    \/ CoordinatesGraphLoadFails
    \/ BuildPointGrid
    \/ BuildPointIdMap
    \/ LoadCh
    \/ LoadHl
    \/ AnnounceReady
    \/ Serve
    \/ \E r \in Requests, body \in Bodies : Receive(r, body)
    \/ \E r \in Requests : Snap(r)
    \/ \E r \in Requests : ComputePath(r)
    \/ \E r \in Requests : Respond(r)

Spec == Init /\ [][Next]_vars

\* ------------------------------------------------------------ notions
Terminal(r) == req[r].pc \in {"responded", "rejected", "panicked"}
PastSnapping(r) == req[r].pc \in {"snapped", "computed", "responded"}
Rank(pc) ==
    CASE pc = "idle" -> 0
      [] pc = "received" -> 1
      [] pc = "snapped" -> 2
      [] pc = "computed" -> 3
      [] OTHER -> 4

\* A (lon, lat) pair within [-180, 180] x [-90, 90].
InRange(c) == c[1] \in (-180)..180 /\ c[2] \in (-90)..90

\* The closure run from start to finish on the shared state, with no other
\* request in flight: the pc it ends in, the path and the response.
RouteAlone(body) ==
    LET from == SnapVertex(point_grid, point_id_map, body.from)
        to == SnapVertex(point_grid, point_id_map, body.to)
        request == IF from.some /\ to.some THEN ShortestPathRequest_new(from.val, to.val)
                   ELSE None
        pathx == IF request.some THEN get_shortest_path(path_finder, request.val) ELSE None
        path == IF pathx.some THEN convert_path(coordinates_graph, pathx.val.vertices)
                ELSE None
    IN IF ~body.wellformed
       THEN [pc |-> "rejected", response |-> [status |-> 400, linestring |-> <<>>]]
       ELSE IF path.some
       THEN [pc |-> "responded",
             response |-> [status |-> 200, linestring |-> Linestring_new(path.val)]]
       ELSE [pc |-> "panicked", response |-> NoResponse]

\* The two endpoints of a well-formed request snap to vertices.
Snaps(body) ==
    /\ body.wellformed
    /\ SnapVertex(point_grid, point_id_map, body.from).some
    /\ SnapVertex(point_grid, point_id_map, body.to).some

\* The snapped endpoints of the body are vertices of the snapshot and the
\* backend reports no path between them.
NoPathFound(body) ==
    /\ Snaps(body)
    /\ LET s == SnapVertex(point_grid, point_id_map, body.from).val
           t == SnapVertex(point_grid, point_id_map, body.to).val
       IN /\ {s, t} \subseteq 0..(path_finder.n - 1)
          /\ ~get_shortest_path(path_finder, [source |-> s, target |-> t]).some

\* Smallest vertex id among the points of the coordinates graph nearest to
\* the (lon, lat) pair c.
FirstNearestId(c) ==
    LET p == Point_from_coordinate(c[2], c[1])
        i == CHOOSE i \in 1..Len(coordinates_graph) :
                /\ \A j \in 1..Len(coordinates_graph) :
                        Dist2(coordinates_graph[i], p) <= Dist2(coordinates_graph[j], p)
                /\ \A j \in 1..(i - 1) :
                        Dist2(coordinates_graph[j], p) > Dist2(coordinates_graph[i], p)
    IN i - 1

\* ------------------------------------------------------------- claims

\* C1: a request whose snapped vertices are not connected is answered with a
\* defined status that is neither 200 nor the status of malformed input (400),
\* and its handler does not panic.
C1_NoPathIsAResult ==
    \A r \in Requests :
        (Terminal(r) /\ NoPathFound(req[r].body)) =>
            /\ req[r].pc # "panicked"
            /\ req[r].response.status \notin {0, 200, 400}

\* C2: a success (200) response is emitted only from the Validated state of a
\* request, after the weight and continuity of its path have been checked.
C2_SuccessOnlyAfterValidation ==
    [][\A r \in Requests :
          (req'[r].response.status = 200 /\ req[r].response.status # 200)
              => req[r].pc = "validated"]_vars

\* C3: a request whose endpoints snap to the same vertex v never panics, and is
\* answered with 200, a path of weight 0 and the single point of v as geometry.
C3_DegenerateRequest ==
    \A r \in Requests :
        (/\ req[r].pc \notin {"idle", "received"}
         /\ Snaps(req[r].body)
         /\ SnapVertex(point_grid, point_id_map, req[r].body.from).val
                = SnapVertex(point_grid, point_id_map, req[r].body.to).val) =>
            LET v == SnapVertex(point_grid, point_id_map, req[r].body.from).val
            IN /\ req[r].pc # "panicked"
               /\ req[r].pc \in {"computed", "responded"} =>
                      req[r].path = [vertices |-> <<v>>, weight |-> 0]
               /\ req[r].pc = "responded" =>
                      req[r].response = [status |-> 200,
                                         linestring |-> <<coordinates_graph[v + 1]>>]

\* C4: no request ends without a response: every request that has left the
\* pipeline carries a path response or an error response.
C4_EveryRequestAnswered ==
    \A r \in Requests : Terminal(r) => req[r].response.status # 0

\* C5: while serving, every step leaves the server serving and the shared
\* state unchanged, moves a request only forward through its stages (no
\* retry), and a request that ends, ends with the outcome it would have had
\* alone, whatever happened to the other requests.
C5_FailureIsolation ==
    [][phase = "serving" =>
          /\ phase' = "serving"
          /\ shared' = shared
          /\ \A r \in Requests :
                /\ req'[r] # req[r] => Rank(req'[r].pc) > Rank(req[r].pc)
                /\ (Rank(req[r].pc) < 4 /\ Rank(req'[r].pc) = 4) =>
                      /\ req'[r].pc = RouteAlone(req'[r].body).pc
                      /\ req'[r].response = RouteAlone(req'[r].body).response]_vars

\* C5 witness: the handler of one request has panicked after snapping both
\* endpoints, and another request has been answered with a path.
C5_Witness ==
    \E r1, r2 \in Requests :
        /\ req[r1].pc = "panicked"
        /\ Snaps(req[r1].body)
        /\ req[r2].pc = "responded"
        /\ req[r2].response.status = 200

\* C6: a request with a malformed body or with coordinates out of range is
\* answered with a 4xx status and is never snapped or routed.
C6_InvalidInputRejected ==
    \A r \in Requests :
        (/\ req[r].pc # "idle"
         /\ \/ ~req[r].body.wellformed
            \/ ~InRange(req[r].body.from)
            \/ ~InRange(req[r].body.to)) =>
            /\ req[r].pc \in {"received", "rejected"}
            /\ Terminal(r) => req[r].response.status \in 400..499

\* C7: the listener serves (and "ready" is printed) only after every artifact
\* has been loaded successfully; with an artifact that cannot be opened or
\* deserialized the process never gets past its load, and no request is
\* ever served.
C7_StartupBeforeServing ==
    /\ (ready_printed \/ phase = "serving") =>
          /\ gr_co_file.status = "ok" /\ ch_file.status = "ok" /\ hl_file = "ok"
          /\ coordinates_graph = gr_co_file.points
          /\ point_grid = gr_co_file.points
          /\ DOMAIN point_id_map = {gr_co_file.points[i] : i \in 1..Len(gr_co_file.points)}
          /\ ch_information = ch_file.graph
          /\ hl
          /\ path_finder = ch_file.graph
    /\ phase = "serving" => ready_printed
    /\ gr_co_file.status # "ok" => phase \in {"start", "aborted"}
    /\ ch_file.status # "ok" =>
          phase \in {"start", "graph_loaded", "grid_built", "map_built", "aborted"}
    /\ hl_file # "ok" =>
          phase \in {"start", "graph_loaded", "grid_built", "map_built", "ch_loaded",
                     "aborted"}
    /\ phase # "serving" => \A r \in Requests : req[r] = IdleRequest

\* C7 witness: the server is serving and has answered a request with a path.
C7_Witness ==
    /\ phase = "serving"
    /\ \E r \in Requests : req[r].response.status = 200

\* C8: the service serves only if the coordinate data and the backend's graph
\* snapshot have the same vertices; no request hands the backend a vertex
\* outside its snapshot, and no path holds a vertex without coordinates.
C8_VertexSetsAgree ==
    /\ phase = "serving" => Len(coordinates_graph) = path_finder.n
    /\ \A r \in Requests :
          /\ PastSnapping(r) => {req[r].from, req[r].to} \subseteq 0..(path_finder.n - 1)
          /\ \A i \in 1..Len(req[r].path.vertices) :
                req[r].path.vertices[i] \in 0..(Len(coordinates_graph) - 1)

\* C9: once the path finder is built, the coordinates graph, the spatial
\* partition, the point-to-id map and the path finder are in every state what
\* startup built them to be from the artifacts, whatever requests have been
\* handled.
C9_SharedStateImmutable ==
    phase \in {"ready", "serving"} =>
        /\ coordinates_graph = gr_co_file.points
        /\ point_grid = add_points(<<>>, gr_co_file.points)
        /\ point_id_map = InsertPoints(gr_co_file.points, Len(gr_co_file.points))
        /\ path_finder = ch_file.graph

\* C9 witness: requests have been handled, one answered with a path and one
\* rejected.
C9_Witness ==
    \E r1, r2 \in Requests :
        /\ req[r1].pc = "responded"
        /\ req[r2].pc = "rejected"

\* C10: a request coordinate snaps to the smallest vertex id among the points
\* nearest to it, coincident points included.
C10_FirstInsertedWins ==
    \A r \in Requests :
        PastSnapping(r) =>
            /\ req[r].from = FirstNearestId(req[r].body.from)
            /\ req[r].to = FirstNearestId(req[r].body.to)

====
